---- MODULE Spec2Model ----
(***************************************************************************)
(* A model of felixarjuna/me: the article page (grouping posts by year),   *)
(* the LocalTime clock widget, the JSON-LD injector and the content        *)
(* collection transforms.                                                  *)
(*                                                                         *)
(* Units.  A Date of an article is a local calendar day number (days since *)
(* 1970-01-01); getTime() orders dates, getFullYear() is the civil year of *)
(* the day.  The wall clock of the widget counts seconds since the epoch.   *)
(***************************************************************************)
EXTENDS Integers, Sequences, FiniteSets

VARIABLES
    \* ---- article page (src/app/article/page.tsx 1..57) ----
    allArticles,    \* the imported array, shared by every importer
    original,       \* the array as content-collections produced it (history)
    postsByYear,    \* module-level record: year key -> posts
    sections,       \* what Posts rendered, top to bottom
    apc,            \* "loaded" -> "evaluated" -> "rendered"
    seen,           \* what another importer of allArticles observed
    \* ---- LocalTime (src/components/local-time.tsx 1..25) ----
    now,            \* the wall clock (new Date())
    time,           \* React state `time`
    render,         \* the formatted string of the last render
    dirty,          \* a setTime has scheduled a re-render
    lpc,            \* position of the instance in its life cycle
    strict,         \* rendered under React StrictMode
    interval,       \* the handle captured by the live effect closure (0: none)
    timers,         \* the window's map of active timers (handles)
    tasks,          \* timer tasks queued on the event loop (handles)
    nextHandle,     \* next handle setInterval returns
    initial,        \* the clock value read at the initial render (history)
    lastTick,       \* the clock value read at the most recent tick (history)
    monotone,       \* the clock has never been set back (history)
    lateTick,       \* a tick callback ran after the unmount (history)
    dropped,        \* a timer task found its handle cleared (history)
    \* ---- JsonLd (src/components/json-ld.tsx) ----
    nodeEnv,        \* process.env.NODE_ENV
    vercelUrl,      \* env.VERCEL_PROJECT_PRODUCTION_URL
    loadedEnv,      \* the environment the module was loaded in (history)
    person,         \* the module-level object
    emitted,        \* the script elements rendered so far
    \* ---- content collections (src/app/article/page.tsx 59..138) ----
    settled,        \* the transform calls made so far, each with its outcome
    \* ---- the build of the collections (page.tsx 4, 79..138; content/) ----
    files,          \* the files of the content directory
    generated,      \* the exports of the generated module content-collections
    imported,       \* what the article page's import of allArticles got
    bpc             \* "source" -> "built" -> "imported"

avars == <<allArticles, original, postsByYear, sections, apc, seen>>
lvars == <<now, time, render, dirty, lpc, strict, interval, timers, tasks,
           nextHandle, initial, lastTick, monotone, lateTick, dropped>>
jvars == <<nodeEnv, vercelUrl, loadedEnv, person, emitted>>
cvars == <<settled>>
bvars == <<files, generated, imported, bpc>>
vars == <<allArticles, original, postsByYear, sections, apc, seen,
          now, time, render, dirty, lpc, strict, interval, timers, tasks,
          nextHandle, initial, lastTick, monotone, lateTick, dropped,
          nodeEnv, vercelUrl, loadedEnv, person, emitted, settled,
          files, generated, imported, bpc>>

(***************************************************************************)
(* Bounds                                                                  *)
(***************************************************************************)
MaxArticles == 3
MaxClock == 3
MaxRenders == 3
MaxDocs == 2
MaxFiles == 2
\* 2023-12-30, 2023-12-31, 2024-01-01, 2024-12-31, 2025-01-01
Dates == {19721, 19722, 19723, 20088, 20089}

(***************************************************************************)
(* Generic helpers                                                         *)
(***************************************************************************)
Range(s) == {s[i] : i \in DOMAIN s}

RECURSIVE Concat(_)
Concat(ss) == IF ss = <<>> THEN <<>> ELSE Head(ss) \o Concat(Tail(ss))

InsertAt(s, k, x) == SubSeq(s, 1, k) \o <<x>> \o SubSeq(s, k + 1, Len(s))

(***************************************************************************)
(* Date: getTime() and getFullYear()                                       *)
(***************************************************************************)
IsLeap(y) == (y % 4 = 0 /\ y % 100 # 0) \/ y % 400 = 0
DaysIn(y) == IF IsLeap(y) THEN 366 ELSE 365

RECURSIVE YearFrom(_, _)
YearFrom(y, d) == IF d < DaysIn(y) THEN y ELSE YearFrom(y + 1, d - DaysIn(y))

getTime(date) == date
getFullYear(date) == YearFrom(1970, date)

(***************************************************************************)
(* Property keys: a number used as a key is its decimal string, modelled   *)
(* as the sequence of its digits; Number() parses it back.                 *)
(***************************************************************************)
RECURSIVE ToString(_)
ToString(n) == IF n < 10 THEN <<n>> ELSE Append(ToString(n \div 10), n % 10)

RECURSIVE Number(_)
Number(str) ==
    IF Len(str) = 0 THEN 0
    ELSE 10 * Number(SubSeq(str, 1, Len(str) - 1)) + str[Len(str)]

(***************************************************************************)
(* Array.prototype.sort: stable, ordered by the sign of the comparator.    *)
(***************************************************************************)
CompareArticles(a, b) == getTime(b.date) - getTime(a.date)

\* the place of x in the sorted s: after every element that does not sort after it
PlaceOfArticle(s, x) ==
    LET keep == {i \in DOMAIN s : CompareArticles(s[i], x) <= 0}
    IN  IF keep = {} THEN 0 ELSE CHOOSE i \in keep : \A j \in keep : j <= i

RECURSIVE SortArticles(_)
SortArticles(s) ==
    IF s = <<>> THEN <<>>
    ELSE LET front == SortArticles(SubSeq(s, 1, Len(s) - 1))
             x == s[Len(s)]
         IN  InsertAt(front, PlaceOfArticle(front, x), x)

CompareEntriesAscending(a, b) == Number(a[1]) - Number(b[1])
CompareEntries(a, b) == Number(b[1]) - Number(a[1])

PlaceOfEntry(s, x) ==
    LET keep == {i \in DOMAIN s : CompareEntries(s[i], x) <= 0}
    IN  IF keep = {} THEN 0 ELSE CHOOSE i \in keep : \A j \in keep : j <= i

RECURSIVE SortEntries(_)
SortEntries(s) ==
    IF s = <<>> THEN <<>>
    ELSE LET front == SortEntries(SubSeq(s, 1, Len(s) - 1))
             x == s[Len(s)]
         IN  InsertAt(front, PlaceOfEntry(front, x), x)

(***************************************************************************)
(* postsByYear: the reduce of page.tsx 9..19                               *)
(***************************************************************************)
EmptyRecord == [k \in {} |-> <<>>]

GroupStepOverwrite(acc, post) ==
    LET year == ToString(getFullYear(post.date))
    IN  [k \in DOMAIN acc \cup {year} |-> IF k = year THEN <<post>> ELSE acc[k]]

GroupStep(acc, post) ==
    LET year == ToString(getFullYear(post.date))
        had == IF year \in DOMAIN acc THEN acc[year] ELSE <<>>
    IN  [k \in DOMAIN acc \cup {year} |->
            IF k = year THEN Append(had, post) ELSE acc[k]]

RECURSIVE Reduce(_, _)
Reduce(acc, s) == IF s = <<>> THEN acc ELSE Reduce(GroupStep(acc, Head(s)), Tail(s))

(***************************************************************************)
(* Object.entries: integer keys are enumerated in ascending numeric order  *)
(***************************************************************************)
RECURSIVE Entries(_)
Entries(obj) ==
    IF DOMAIN obj = {} THEN <<>>
    ELSE LET k == CHOOSE x \in DOMAIN obj :
                      \A y \in DOMAIN obj : Number(x) <= Number(y)
         IN  <<<<k, obj[k]>>>> \o Entries([j \in DOMAIN obj \ {k} |-> obj[j]])

\* delay={(index + 1) * 0.2}, in tenths
DelayTenths == 2

SectionOfZeroBased(entries, index) ==
    [year |-> entries[index + 1][1],
     delay |-> index * DelayTenths,
     posts |-> entries[index + 1][2]]

SectionOf(entries, index) ==
    [year |-> entries[index + 1][1],
     delay |-> (index + 1) * DelayTenths,
     posts |-> entries[index + 1][2]]

\* Posts, page.tsx 38..53: one Section per entry, index 0-based
RenderSections(obj) ==
    LET entries == SortEntries(Entries(obj))
    IN  [i \in 1 .. Len(entries) |-> SectionOf(entries, i - 1)]

(***************************************************************************)
(* Article page: actions                                                   *)
(***************************************************************************)
ArticleInputs ==
    UNION {[1 .. n -> Dates] : n \in 0 .. MaxArticles}

InitArticle ==
    /\ \E ds \in ArticleInputs :
          allArticles = [i \in DOMAIN ds |-> [path |-> i, date |-> ds[i]]]
    /\ original = allArticles
    /\ postsByYear = EmptyRecord
    /\ sections = <<>>
    /\ apc = "loaded"
    /\ seen = <<>>

\* the array the receiver of sort() holds afterwards: sort() sorts in place
\* and returns the receiver
ReceiverAfterCopyingSort(array) == array
ReceiverAfterSort(array) == SortArticles(array)

\* evaluation of the page module: the imported array is sorted, the sorted
\* array is reduced
EvalArticleModule ==
    /\ apc = "loaded"
    /\ allArticles' = ReceiverAfterSort(allArticles)
    /\ postsByYear' = Reduce(EmptyRecord, SortArticles(allArticles))
    /\ apc' = "evaluated"
    /\ UNCHANGED <<original, sections, seen>>
    /\ UNCHANGED <<lvars, jvars, cvars, bvars>>

RenderPosts ==
    /\ apc = "evaluated"
    /\ sections' = RenderSections(postsByYear)
    /\ apc' = "rendered"
    /\ UNCHANGED <<allArticles, original, postsByYear, seen>>
    /\ UNCHANGED <<lvars, jvars, cvars, bvars>>

\* another module imports allArticles: it gets the one shared array
ImportElsewhere ==
    /\ seen = <<>>
    /\ seen' = <<[evaluated |-> apc # "loaded", articles |-> allArticles]>>
    /\ UNCHANGED <<allArticles, original, postsByYear, sections, apc>>
    /\ UNCHANGED <<lvars, jvars, cvars, bvars>>

NextArticle ==
    \/ EvalArticleModule
    \/ RenderPosts
    \/ ImportElsewhere

(***************************************************************************)
(* LocalTime                                                               *)
(***************************************************************************)
\* no state yet: the component has not rendered
None == -1

\* new Date(): the wall clock, in seconds since the epoch
NewDate == now

\* Intl.DateTimeFormat('de-DE', hour/minute/second 2-digit, Europe/Berlin):
\* <<hour, minute, second>> of the local time of day, CET = UTC + 1 h
Format(t) ==
    LET local == t + 3600
    IN  <<(local \div 3600) % 24, (local \div 60) % 60, local % 60>>

InitClock ==
    /\ now \in 0 .. MaxClock
    /\ strict \in BOOLEAN
    /\ time = None
    /\ render = <<>>
    /\ dirty = FALSE
    /\ lpc = "unmounted"
    /\ interval = 0
    /\ timers = {}
    /\ tasks = {}
    /\ nextHandle = 1
    /\ initial = None
    /\ lastTick = None
    /\ monotone = TRUE
    /\ lateTick = FALSE
    /\ dropped = FALSE

\* the initial state handed to useState (line 4)
InitialStateAhead == NewDate + 1
InitialState == NewDate

\* the first render: useState(new Date()) and the formatted output
MountRender ==
    /\ lpc = "unmounted"
    /\ time' = InitialState
    /\ initial' = NewDate
    /\ render' = Format(time')
    /\ lpc' = "rendered"
    /\ UNCHANGED <<now, dirty, strict, interval, timers, tasks, nextHandle,
                   lastTick, monotone, lateTick, dropped>>
    /\ UNCHANGED <<avars, jvars, cvars, bvars>>

\* the effect of lines 6..11: setInterval(..., 1000), the handle kept by the
\* closure of the cleanup.  It runs after the first render and, under
\* StrictMode, once more after the simulated unmount.
RunEffect ==
    /\ lpc \in {"rendered", "strictCleaned"}
    /\ interval' = nextHandle
    /\ timers' = timers \cup {nextHandle}
    /\ nextHandle' = nextHandle + 1
    /\ lpc' = IF strict /\ lpc = "rendered" THEN "strictMounted" ELSE "mounted"
    /\ UNCHANGED <<now, time, render, dirty, strict, tasks, initial, lastTick,
                   monotone, lateTick, dropped>>
    /\ UNCHANGED <<avars, jvars, cvars, bvars>>

\* what the cleanup of line 10 clears: the handle its own effect run created
CleanupForgets == {}
CleanupClears == {interval}

\* StrictMode's simulated unmount between the two effect runs
StrictCleanup ==
    /\ lpc = "strictMounted"
    /\ timers' = timers \ CleanupClears
    /\ interval' = 0
    /\ lpc' = "strictCleaned"
    /\ UNCHANGED <<now, time, render, dirty, strict, tasks, nextHandle, initial,
                   lastTick, monotone, lateTick, dropped>>
    /\ UNCHANGED <<avars, jvars, cvars, bvars>>

Unmount ==
    /\ lpc = "mounted"
    /\ timers' = timers \ CleanupClears
    /\ interval' = 0
    /\ lpc' = "gone"
    /\ UNCHANGED <<now, time, render, dirty, strict, tasks, nextHandle, initial,
                   lastTick, monotone, lateTick, dropped>>
    /\ UNCHANGED <<avars, jvars, cvars, bvars>>

\* the interval elapses: the event loop queues a task for the handle
TimerFire ==
    /\ \E h \in timers \ tasks : tasks' = tasks \cup {h}
    /\ UNCHANGED <<now, time, render, dirty, lpc, strict, interval, timers,
                   nextHandle, initial, lastTick, monotone, lateTick, dropped>>
    /\ UNCHANGED <<avars, jvars, cvars, bvars>>

\* the value the callback of line 8 hands to setTime
TickValueStale == time
TickValue == NewDate

\* a queued timer task runs: the callback is called only if the handle is
\* still in the map of active timers
RunTask ==
    /\ \E h \in tasks :
        /\ tasks' = tasks \ {h}
        /\ IF h \in timers
           THEN /\ time' = TickValue
                /\ lastTick' = NewDate
                /\ dirty' = TRUE
                /\ lateTick' = (lateTick \/ lpc = "gone")
                /\ UNCHANGED dropped
           ELSE /\ dropped' = TRUE
                /\ UNCHANGED <<time, lastTick, dirty, lateTick>>
    /\ UNCHANGED <<now, render, lpc, strict, interval, timers, nextHandle,
                   initial, monotone>>
    /\ UNCHANGED <<avars, jvars, cvars, bvars>>

\* timers a re-render registers: none, the effect has the dependency list []
RerenderRegistersAgain == {nextHandle}
RerenderRegisters == {}

\* the re-render setTime scheduled
Rerender ==
    /\ dirty
    /\ lpc \in {"mounted", "strictMounted", "strictCleaned"}
    /\ render' = Format(time)
    /\ dirty' = FALSE
    /\ timers' = timers \cup RerenderRegisters
    /\ nextHandle' = nextHandle + Cardinality(RerenderRegisters)
    /\ UNCHANGED <<now, time, lpc, strict, interval, tasks, initial, lastTick,
                   monotone, lateTick, dropped>>
    /\ UNCHANGED <<avars, jvars, cvars, bvars>>

ClockAdvance ==
    /\ now < MaxClock
    /\ now' = now + 1
    /\ UNCHANGED <<time, render, dirty, lpc, strict, interval, timers, tasks,
                   nextHandle, initial, lastTick, monotone, lateTick, dropped>>
    /\ UNCHANGED <<avars, jvars, cvars, bvars>>

\* the wall clock is set back (clock synchronisation, the user)
ClockSetBack ==
    /\ now > 0
    /\ now' = now - 1
    /\ monotone' = FALSE
    /\ UNCHANGED <<time, render, dirty, lpc, strict, interval, timers, tasks,
                   nextHandle, initial, lastTick, lateTick, dropped>>
    /\ UNCHANGED <<avars, jvars, cvars, bvars>>

NextClock ==
    \/ MountRender
    \/ RunEffect
    \/ StrictCleanup
    \/ Unmount
    \/ TimerFire
    \/ RunTask
    \/ Rerender
    \/ ClockAdvance
    \/ ClockSetBack

(***************************************************************************)
(* JsonLd                                                                  *)
(***************************************************************************)
NodeEnvs == {"production", "development", "test"}
\* a host as written in the variable: <<name, port>>, the port "" when absent
Hosts == {<<"felixarjuna.dev", "">>, <<"localhost", "3000">>,
          <<"felixarjuna.dev", "443">>}

\* Object.values(social).map(({ href }) => href)
SocialHrefs == <<"github", "linkedin">>

ProtocolAlwaysSecure(env) == "https"
Protocol(env) == IF env = "production" THEN "https" ELSE "http"

\* a URL string, as the sequence of its parts
BaseUrl(env, host) == <<Protocol(env), "://", host>>

DefaultPort(protocol) == IF protocol = "https" THEN "443" ELSE "80"

\* the URL parser: the port of the scheme is dropped, the path defaults to /
ParseUrl(str) ==
    [protocol |-> str[1],
     hostname |-> str[3][1],
     port |-> IF str[3][2] = DefaultPort(str[1]) THEN "" ELSE str[3][2],
     pathname |-> IF Len(str) >= 4 THEN str[4] ELSE "/"]

\* new URL(path, base).toString() for an absolute path
ResolveUrl(path, base) ==
    LET parsed == ParseUrl(base)
    IN  <<parsed.protocol, "://", <<parsed.hostname, parsed.port>>, path>>

Person(env, host) ==
    [context |-> "https://schema.org",
     type |-> "Person",
     name |-> "Felix Arjuna",
     description |-> "Cloud DevOps Engineer",
     gender |-> "male",
     nationality |-> "Indonesian",
     url |-> BaseUrl(env, host),
     image |-> ResolveUrl("/profile.png", BaseUrl(env, host)),
     sameAs |-> SocialHrefs,
     alumniOf |-> "Aachen University of Applied Sciences"]

\* JSON.stringify of the object: its members in insertion order
Stringify(obj) ==
    <<<<"@context", obj.context>>, <<"@type", obj.type>>, <<"name", obj.name>>,
      <<"description", obj.description>>, <<"gender", obj.gender>>,
      <<"nationality", obj.nationality>>, <<"url", obj.url>>,
      <<"image", obj.image>>, <<"sameAs", obj.sameAs>>,
      <<"alumniOf", obj.alumniOf>>>>

InitJsonLd ==
    /\ nodeEnv \in NodeEnvs
    /\ vercelUrl \in Hosts
    /\ loadedEnv = <<>>
    /\ person = <<>>
    /\ emitted = <<>>

\* module load: lines 5..19 run once
LoadJsonLd ==
    /\ loadedEnv = <<>>
    /\ loadedEnv' = <<nodeEnv, vercelUrl>>
    /\ person' = Person(nodeEnv, vercelUrl)
    /\ UNCHANGED <<nodeEnv, vercelUrl, emitted>>
    /\ UNCHANGED <<avars, lvars, cvars, bvars>>

\* the object a render serialises
RenderedObjectRecomputed == Person(nodeEnv, vercelUrl)
RenderedObject == person

JsonLd ==
    /\ loadedEnv # <<>>
    /\ Len(emitted) < MaxRenders
    /\ emitted' = Append(emitted, [tag |-> "script",
                                   type |-> "application/ld+json",
                                   children |-> Stringify(RenderedObject)])
    /\ UNCHANGED <<nodeEnv, vercelUrl, loadedEnv, person>>
    /\ UNCHANGED <<avars, lvars, cvars, bvars>>

\* the process environment changes after the module was loaded
EnvChange ==
    /\ loadedEnv # <<>>
    /\ \E e \in NodeEnvs, h \in Hosts :
          /\ <<e, h>> # <<nodeEnv, vercelUrl>>
          /\ nodeEnv' = e
          /\ vercelUrl' = h
    /\ UNCHANGED <<loadedEnv, person, emitted>>
    /\ UNCHANGED <<avars, lvars, cvars, bvars>>

NextJsonLd ==
    \/ LoadJsonLd
    \/ JsonLd
    \/ EnvChange

(***************************************************************************)
(* Content collections: the transforms of pages and posts                  *)
(*                                                                         *)
(* A text (title, description, content) is its number of words and whether *)
(* it is well-formed MDX; a path is the sequence of its characters.        *)
(***************************************************************************)
WordCounts == {0, 200, 402}
Titles == {[words |-> 2, valid |-> TRUE], [words |-> 402, valid |-> TRUE]}
Contents == [words : WordCounts, valid : BOOLEAN]
MetaPaths == {<<"a", "\\", "b">>, <<"a", "/", "b">>, <<"a", "\\", "a", "\\", "b">>}

\* _meta of a document: its path without the extension, and the fields the
\* transforms pass on as they are
MetaInputs ==
    {[path |-> p, filePath |-> Append(p, ".mdx"), fileName |-> "b.mdx"] :
        p \in MetaPaths}
PostDates == {19723, 20089}

PageInputs ==
    [title : Titles, content : Contents,
     meta : MetaInputs]

PostInputs ==
    [title : Titles, content : Contents, date : PostDates,
     meta : MetaInputs]

rehypeCodeOptions == [themes |-> [light |-> "github-light", dark |-> "github-dark-default"]]

PagesOptions ==
    [remarkPlugins |-> <<"remarkGfm">>,
     rehypePlugins |-> <<<<"rehypeCode", rehypeCodeOptions>>, "remarkHeading">>]

PostsOptionsNoHeading ==
    [remarkPlugins |-> <<"remarkGfm">>,
     rehypePlugins |-> <<<<"rehypeCode", rehypeCodeOptions>>>>]

PostsOptions ==
    [remarkPlugins |-> <<"remarkGfm">>,
     rehypePlugins |-> <<<<"rehypeCode", rehypeCodeOptions>>, "remarkHeading">>]

\* compileMDX(context, page, options): the compiled body of the document's
\* content under the plugins, or a rejection when the content is no MDX
compileMDX(page, options) ==
    IF page.content.valid
    THEN [ok |-> TRUE, body |-> <<"compiled", page.content, options>>]
    ELSE [ok |-> FALSE, error |-> <<"MDXError", page.content>>]

\* readingTime(text).text: minutes = words / 200, shown as the ceiling of
\* the minutes rounded to two places, followed by " min read"
WordsPerMinute == 200

readingTime(text) ==
    LET hundredths == (text.words * 100 + WordsPerMinute \div 2) \div WordsPerMinute
        displayed == (hundredths + 99) \div 100
    IN  [text |-> <<displayed, " min read">>, words |-> text.words]

\* path.replace(/\\/g, '/')
FirstBackslash(path) ==
    LET at == {i \in DOMAIN path : path[i] = "\\"}
    IN  IF at = {} THEN 0 ELSE CHOOSE i \in at : \A j \in at : i <= j

NormalizePathFirstOnly(path) ==
    [i \in DOMAIN path |-> IF i = FirstBackslash(path) THEN "/" ELSE path[i]]

NormalizePath(path) ==
    [i \in DOMAIN path |-> IF path[i] = "\\" THEN "/" ELSE path[i]]

Fulfilled(doc) == [status |-> "fulfilled", value |-> doc]
Rejected(error) == [status |-> "rejected", value |-> error]

PagesTransform(page) ==
    LET compiled == compileMDX(page, PagesOptions)
    IN  IF ~compiled.ok THEN Rejected(compiled.error)
        ELSE Fulfilled([title |-> page.title,
                        content |-> page.content,
                        body |-> compiled.body,
                        meta |-> [page.meta EXCEPT !.path = NormalizePath(@)]])

\* the text readingTime is computed from (line 127)
ReadingTimeOfTitle(page) == page.title
ReadingTimeSource(page) == page.content

PostsTransformSwallows(page) ==
    LET compiled == compileMDX(page, PostsOptions)
        normalizedPath == NormalizePath(page.meta.path)
    IN  Fulfilled([title |-> page.title,
                   content |-> page.content,
                   date |-> page.date,
                   body |-> IF compiled.ok THEN compiled.body ELSE <<>>,
                   slug |-> normalizedPath,
                   readingTime |-> readingTime(ReadingTimeSource(page)).text,
                   meta |-> [page.meta EXCEPT !.path = normalizedPath]])

PostsTransform(page) ==
    LET compiled == compileMDX(page, PostsOptions)
        normalizedPath == NormalizePath(page.meta.path)
    IN  IF ~compiled.ok THEN Rejected(compiled.error)
        ELSE Fulfilled([title |-> page.title,
                        content |-> page.content,
                        date |-> page.date,
                        body |-> compiled.body,
                        slug |-> normalizedPath,
                        readingTime |-> readingTime(ReadingTimeSource(page)).text,
                        meta |-> [page.meta EXCEPT !.path = normalizedPath]])

InitContent == settled = {}

TransformPage ==
    /\ Cardinality(settled) < MaxDocs
    /\ \E page \in PageInputs :
          settled' = settled \cup
              {[collection |-> "pages", page |-> page, result |-> PagesTransform(page)]}
    /\ UNCHANGED <<avars, lvars, jvars, bvars>>

TransformPost ==
    /\ Cardinality(settled) < MaxDocs
    /\ \E page \in PostInputs :
          settled' = settled \cup
              {[collection |-> "posts", page |-> page, result |-> PostsTransform(page)]}
    /\ UNCHANGED <<avars, lvars, jvars, bvars>>

NextContent ==
    \/ TransformPage
    \/ TransformPost

(***************************************************************************)
(* The build: defineConfig's collections collect the files of content/ and *)
(* the generated module exports one array per collection; the article page *)
(* imports allArticles from it.                                            *)
(*                                                                         *)
(* A file is its directory under content/, its extension and the fields of *)
(* its frontmatter; an include pattern dir/*.ext is <<dir, ext>>.          *)
(***************************************************************************)
Directories == {"pages", "blog", "article"}
Extensions == {"mdx", "md"}
Frontmatters == {{"title", "description", "date"}, {"title", "description"}, {}}

ContentFiles == [dir : Directories, ext : Extensions, frontmatter : Frontmatters]

\* sets of files, no two at the same place
ContentTrees ==
    {t \in SUBSET ContentFiles :
        /\ Cardinality(t) <= MaxFiles
        /\ \A f, g \in t : (f.dir = g.dir /\ f.ext = g.ext) => f = g}

\* defineCollection({ name: 'pages', include: 'pages/*.mdx', schema })
pages ==
    [name |-> "pages", directory |-> "content", include |-> <<"pages", "mdx">>,
     required |-> {"title", "description"}]

\* defineCollection({ name: 'posts', include: 'blog/*.mdx', schema })
posts ==
    [name |-> "posts", directory |-> "content", include |-> <<"blog", "mdx">>,
     required |-> {"title", "description", "date"}]

\* defineConfig({ collections: [pages, posts] })
collections == <<pages, posts>>

\* the glob dir/*.ext: the star matches a file name, not a directory
Matches(include, file) == file.dir = include[1] /\ file.ext = include[2]

\* the schema accepts a frontmatter that has every required field
Accepts(collection, file) == collection.required \subseteq file.frontmatter

\* the name of the export of a collection: all + its name, capitalised
ExportName(name) == <<"all", name>>

\* import { allArticles } from 'content-collections'
ImportedName == <<"all", "articles">>

Collected(collection, tree) ==
    {f \in tree : Matches(collection.include, f) /\ Accepts(collection, f)}

InitBuild ==
    /\ files \in ContentTrees
    /\ generated = EmptyRecord
    /\ imported = {}
    /\ bpc = "source"

RestBuild ==
    /\ files = {}
    /\ generated = EmptyRecord
    /\ imported = {}
    /\ bpc = "source"

\* content-collections builds the generated module
Build ==
    /\ bpc = "source"
    /\ generated' =
          [n \in {ExportName(collections[i].name) : i \in DOMAIN collections} |->
              LET i == CHOOSE i \in DOMAIN collections :
                           ExportName(collections[i].name) = n
              IN  Collected(collections[i], files)]
    /\ bpc' = "built"
    /\ UNCHANGED <<files, imported>>
    /\ UNCHANGED <<avars, lvars, jvars, cvars>>

\* the article page is loaded: a name the module does not export is undefined
ImportArticles ==
    /\ bpc = "built"
    /\ imported' = IF ImportedName \in DOMAIN generated
                   THEN generated[ImportedName]
                   ELSE "undefined"
    /\ bpc' = "imported"
    /\ UNCHANGED <<files, generated>>
    /\ UNCHANGED <<avars, lvars, jvars, cvars>>

NextBuild ==
    \/ Build
    \/ ImportArticles

(***************************************************************************)
(* Specifications: one per component, the others at rest                   *)
(***************************************************************************)
RestArticle ==
    /\ allArticles = <<>>
    /\ original = <<>>
    /\ postsByYear = EmptyRecord
    /\ sections = <<>>
    /\ apc = "loaded"
    /\ seen = <<>>

RestClock ==
    /\ now = 0
    /\ strict = FALSE
    /\ time = None
    /\ render = <<>>
    /\ dirty = FALSE
    /\ lpc = "unmounted"
    /\ interval = 0
    /\ timers = {}
    /\ tasks = {}
    /\ nextHandle = 1
    /\ initial = None
    /\ lastTick = None
    /\ monotone = TRUE
    /\ lateTick = FALSE
    /\ dropped = FALSE

RestJsonLd ==
    /\ nodeEnv = "development"
    /\ vercelUrl = <<"localhost", "3000">>
    /\ loadedEnv = <<>>
    /\ person = <<>>
    /\ emitted = <<>>

InitArticleAlone ==
    InitArticle /\ RestClock /\ RestJsonLd /\ InitContent /\ RestBuild
InitClockAlone ==
    RestArticle /\ InitClock /\ RestJsonLd /\ InitContent /\ RestBuild
InitJsonLdAlone ==
    RestArticle /\ RestClock /\ InitJsonLd /\ InitContent /\ RestBuild
InitContentAlone ==
    RestArticle /\ RestClock /\ RestJsonLd /\ InitContent /\ RestBuild
InitBuildAlone ==
    RestArticle /\ RestClock /\ RestJsonLd /\ InitContent /\ InitBuild

SpecArticle == InitArticleAlone /\ [][NextArticle]_vars

SpecClock == InitClockAlone /\ [][NextClock]_vars

\* the event loop runs due timers and queued tasks, React runs scheduled renders
SpecClockFair ==
    /\ SpecClock
    /\ WF_vars(TimerFire)
    /\ WF_vars(RunTask)
    /\ WF_vars(Rerender)

SpecJsonLd == InitJsonLdAlone /\ [][NextJsonLd]_vars

SpecContent == InitContentAlone /\ [][NextContent]_vars

SpecBuild == InitBuildAlone /\ [][NextBuild]_vars

\* the whole site: the components run side by side and share no state
Init == InitArticle /\ InitClock /\ InitJsonLd /\ InitContent /\ InitBuild
Next == NextArticle \/ NextClock \/ NextJsonLd \/ NextContent \/ NextBuild
Spec == Init /\ [][Next]_vars

(***************************************************************************)
(* Properties                                                              *)
(***************************************************************************)
Evaluated == apc \in {"evaluated", "rendered"}

\* the places (key, index) of postsByYear that hold the article a
PlacesOf(a) ==
    {<<k, j>> \in UNION {{k} \X DOMAIN postsByYear[k] : k \in DOMAIN postsByYear} :
        postsByYear[k][j] = a}

\* C1: grouping by year is a partition of the articles: every article of the
\* input is at exactly one place of postsByYear, under the key of the full
\* year of its date; no group is empty and no group holds a foreign entry.
C1_GroupingIsPartition ==
    Evaluated =>
        /\ \A i \in DOMAIN original : Cardinality(PlacesOf(original[i])) = 1
        /\ \A k \in DOMAIN postsByYear :
              /\ postsByYear[k] # <<>>
              /\ \A j \in DOMAIN postsByYear[k] :
                    /\ Number(k) = getFullYear(postsByYear[k][j].date)
                    /\ postsByYear[k][j] \in Range(allArticles)
                    /\ postsByYear[k][j] \in Range(original)

C1_Witness ==
    /\ Evaluated
    /\ Cardinality(DOMAIN postsByYear) >= 2
    /\ \E k \in DOMAIN postsByYear : Len(postsByYear[k]) >= 2

\* the articles of the page, read top to bottom
Listed == Concat([i \in DOMAIN sections |-> sections[i].posts])

\* C10: read top to bottom the page lists every article once, in
\* non-increasing date order (articles of equal date in their original
\* order), which is the sorted allArticles; the sections' years strictly
\* decrease down the page and each section holds the articles of its year.
C10_PageOrder ==
    apc = "rendered" =>
        /\ Len(Listed) = Len(original)
        /\ Range(Listed) = Range(original)
        /\ \A i, j \in DOMAIN Listed :
              i < j => /\ getTime(Listed[i].date) >= getTime(Listed[j].date)
                       /\ Listed[i].date = Listed[j].date
                             => Listed[i].path < Listed[j].path
        /\ Listed = allArticles
        /\ \A i, j \in DOMAIN sections :
              i < j => Number(sections[i].year) > Number(sections[j].year)
        /\ \A i \in DOMAIN sections : \A j \in DOMAIN sections[i].posts :
              getFullYear(sections[i].posts[j].date) = Number(sections[i].year)

C10_Witness ==
    /\ apc = "rendered"
    /\ Len(sections) >= 2
    /\ \E i \in DOMAIN sections : Len(sections[i].posts) >= 2
    /\ original # allArticles

Mounted == lpc \in {"mounted", "strictMounted"}

\* C2: every tick sets time to the clock value read at that tick, and while
\* the instance stays mounted the clock keeps running: time is again and
\* again the current clock value, and the displayed string is again and
\* again the format of time.
C2_ClockKeepsRunning ==
    /\ [](lastTick # None => time = lastTick)
    /\ <>[](lpc = "mounted") => ([]<>(time = now) /\ []<>(render = Format(time)))

C2_Witness ==
    /\ lpc = "mounted"
    /\ lastTick # None
    /\ time = now
    /\ time # initial
    /\ render = Format(time)

\* C7: the instance has exactly one active interval timer while its effect
\* is mounted, the one its cleanup holds, and none before the effect ran,
\* between the two StrictMode effect runs and after the unmount.
C7_OneTimerWhileMounted ==
    /\ Mounted => (Cardinality(timers) = 1 /\ timers = {interval})
    /\ ~Mounted => timers = {}

C7_Witness ==
    /\ lpc = "gone"
    /\ strict
    /\ lastTick # None
    /\ render # Format(initial)
    /\ timers = {}

\* C8: after the unmount no tick callback runs: a timer task that was
\* queued before the unmount finds its handle cleared.
C8_NoTickAfterUnmount == ~lateTick

C8_Witness ==
    /\ lpc = "gone"
    /\ ~strict
    /\ dropped
    /\ tasks = {}

LastRead == IF lastTick # None THEN lastTick ELSE initial

\* C9 as stated: time is the clock value of the initial render or of the
\* most recent tick and is never later than the current clock value.
C9_NeverLaterThanClock ==
    lpc # "unmounted" => (time = LastRead /\ time <= now)

\* C9, amended: time is the clock value read at the initial render or, once
\* a tick has run, at the most recent tick; as long as the clock has not
\* been set back, time is not later than the clock and never decreases.
C9_TimeIsLastRead ==
    /\ [](lpc # "unmounted" => (time = LastRead /\ (monotone => time <= now)))
    /\ [][monotone' => time' >= time]_vars

C9_Witness ==
    /\ lpc = "mounted"
    /\ monotone
    /\ lastTick # None
    /\ time > initial
    /\ time < now

\* C3: every render emits one script element of type application/ld+json
\* holding the serialised person of module load, so all renders of a
\* process agree, whatever became of the environment since.
C3_JsonLdDeterministic ==
    /\ loadedEnv # <<>> => person = Person(loadedEnv[1], loadedEnv[2])
    /\ \A i \in DOMAIN emitted :
          /\ emitted[i].tag = "script"
          /\ emitted[i].type = "application/ld+json"
          /\ emitted[i].children = Stringify(Person(loadedEnv[1], loadedEnv[2]))
    /\ \A i, j \in DOMAIN emitted : emitted[i] = emitted[j]

C3_Witness ==
    /\ Len(emitted) >= 2
    /\ Protocol(nodeEnv) # Protocol(loadedEnv[1])
    /\ vercelUrl # loadedEnv[2]

FulfilledOf(collection) ==
    {r \in settled : r.collection = collection /\ r.result.status = "fulfilled"}

\* C4: the readingTime of a transformed post is readingTime(content).text
\* of its raw content, so posts of equal content have equal readingTime.
C4_ReadingTimeFromContent ==
    /\ \A r \in FulfilledOf("posts") :
          r.result.value.readingTime = readingTime(r.page.content).text
    /\ \A r1, r2 \in FulfilledOf("posts") :
          r1.page.content = r2.page.content
              => r1.result.value.readingTime = r2.result.value.readingTime

C4_Witness ==
    \E r1, r2 \in FulfilledOf("posts") :
        /\ r1.page.content = r2.page.content
        /\ r1.page.title # r2.page.title
        /\ r1.page.content.words > WordsPerMinute

\* remarkGfm; rehypeCode with the light and dark themes, then remarkHeading
StatedOptions ==
    [remarkPlugins |-> <<"remarkGfm">>,
     rehypePlugins |->
        <<<<"rehypeCode", [themes |-> [light |-> "github-light",
                                       dark |-> "github-dark-default"]]>>,
          "remarkHeading">>]

\* C5: every document a transform returns has a body, the result of
\* compileMDX on the document it was made from under the stated plugins,
\* which are the same for pages and posts.
C5_BodyIsCompiled ==
    \A r \in FulfilledOf("pages") \cup FulfilledOf("posts") :
        /\ "body" \in DOMAIN r.result.value
        /\ compileMDX(r.page, StatedOptions).ok
        /\ r.result.value.body = compileMDX(r.page, StatedOptions).body

C5_Witness ==
    /\ FulfilledOf("pages") # {}
    /\ FulfilledOf("posts") # {}

OptionsOf(collection) == IF collection = "pages" THEN PagesOptions ELSE PostsOptions

\* C6: a transform rejects exactly when compileMDX rejects, with the error
\* of compileMDX, and then returns no document.
C6_CompileErrorPropagates ==
    \A r \in settled :
        LET compiled == compileMDX(r.page, OptionsOf(r.collection))
        IN  /\ ~compiled.ok => r.result = Rejected(compiled.error)
            /\ r.result.status = "rejected" => ~compiled.ok

C6_Witness ==
    /\ \E r \in settled : r.collection = "pages" /\ r.result.status = "rejected"
    /\ \E r \in settled : r.collection = "posts" /\ r.result.status = "rejected"

\* the years that occur among the dates of the articles
YearsOf(articles) == {getFullYear(articles[i].date) : i \in DOMAIN articles}

\* C11: Posts renders one section per distinct year of the articles, the
\* years strictly descending; the section at 0-based position i has delay
\* (i + 1) * 0.2 (here in tenths), so the delay strictly increases down the
\* page and the newest year has the smallest.
C11_SectionsAndDelays ==
    apc = "rendered" =>
        /\ Len(sections) = Cardinality(YearsOf(original))
        /\ {Number(sections[p].year) : p \in DOMAIN sections} = YearsOf(original)
        /\ \A p, q \in DOMAIN sections :
              p < q => /\ Number(sections[p].year) > Number(sections[q].year)
                       /\ sections[p].delay < sections[q].delay
        /\ \A p \in DOMAIN sections : sections[p].delay = ((p - 1) + 1) * 2

C11_Witness ==
    /\ apc = "rendered"
    /\ Len(sections) >= 3
    /\ original # allArticles

\* the dates of the array never increase from one element to the next
Descending(articles) ==
    \A i, j \in DOMAIN articles :
        i < j => getTime(articles[i].date) >= getTime(articles[j].date)

\* C12: building postsByYear sorts the shared allArticles in place: after
\* the evaluation it holds the same articles in descending date order, and
\* a module that imports it afterwards observes that array.
C12_SortedInPlace ==
    /\ Evaluated =>
          /\ Len(allArticles) = Len(original)
          /\ Range(allArticles) = Range(original)
          /\ Descending(allArticles)
    /\ \A n \in DOMAIN seen :
          IF seen[n].evaluated
          THEN seen[n].articles = allArticles /\ Descending(seen[n].articles)
          ELSE seen[n].articles = original

C12_Witness ==
    /\ seen # <<>>
    /\ seen[1].evaluated
    /\ seen[1].articles # original
    /\ ~Descending(original)

\* C13: the path a transform returns is the input path with every backslash
\* replaced by a forward slash: it holds no backslash, normalising it again
\* changes nothing, the slug of a post is that path, and the other fields
\* of _meta are those of the input.
C13_PathNormalised ==
    \A r \in FulfilledOf("pages") \cup FulfilledOf("posts") :
        LET in == r.page.meta
            out == r.result.value.meta
        IN  /\ Len(out.path) = Len(in.path)
            /\ \A i \in DOMAIN in.path :
                  out.path[i] = IF in.path[i] = "\\" THEN "/" ELSE in.path[i]
            /\ "\\" \notin Range(out.path)
            /\ NormalizePath(out.path) = out.path
            /\ r.collection = "posts" => r.result.value.slug = out.path
            /\ DOMAIN out = DOMAIN in
            /\ \A f \in DOMAIN in \ {"path"} : out[f] = in[f]

C13_Witness ==
    /\ \E r \in FulfilledOf("pages") :
          Cardinality({i \in DOMAIN r.page.meta.path : r.page.meta.path[i] = "\\"}) >= 2
    /\ \E r \in FulfilledOf("posts") :
          /\ Cardinality({i \in DOMAIN r.page.meta.path : r.page.meta.path[i] = "\\"}) >= 2
          /\ "\\" \in Range(r.result.value.meta.filePath)

\* C15: the URLs of person use https exactly when NODE_ENV was production
\* at module load and http otherwise; url is protocol://host as the variable
\* gives it, image is /profile.png on the same protocol, host and port.
C15_PersonUrls ==
    loadedEnv # <<>> =>
        LET expected == IF loadedEnv[1] = "production" THEN "https" ELSE "http"
            url == ParseUrl(person.url)
            image == ParseUrl(person.image)
        IN  /\ person.url = <<expected, "://", loadedEnv[2]>>
            /\ image.protocol = expected
            /\ image.protocol = url.protocol
            /\ image.hostname = url.hostname
            /\ image.port = url.port
            /\ image.pathname = "/profile.png"

C15_Witness ==
    /\ loadedEnv # <<>>
    /\ loadedEnv[1] = "production"
    /\ person.url[3] # person.image[3]
    /\ nodeEnv # "production"

\* the article files content/article/*.mdx with title, description and date
ArticleFiles ==
    {f \in files : /\ f.dir = "article"
                   /\ f.ext = "mdx"
                   /\ {"title", "description", "date"} \subseteq f.frontmatter}

\* C14: the allArticles the article page imports is the export of a
\* collection of defineConfig, and every file content/article/*.mdx with a
\* valid frontmatter is in it.
C14_ArticlesCollected ==
    bpc = "imported" =>
        /\ ImportedName \in DOMAIN generated
        /\ \A f \in ArticleFiles : f \in imported

====
